---- MODULE Spec2Model ----
(***************************************************************************)
(* A model of student.go: the spreadsheet report utility.                  *)
(*                                                                         *)
(* main reads the rows of the first sheet of a workbook (parseExcel,       *)
(* parseRow), then prints three reports: the average of every score        *)
(* component (computeAverages), the average total of every 2024 "A"        *)
(* branch (computeBranchAverages) and the top three students of every      *)
(* component (rankStudents).                                               *)
(*                                                                         *)
(* Representation.                                                         *)
(*  - A cell is a string; a row is a sequence of cells.                    *)
(*  - A float64 score is an integer number of thousandths (8.01 is 8010),  *)
(*    so that differences below, at and above the tolerance 0.01 exist.    *)
(*    Sums are exact; NaN and the infinities only arise from a division    *)
(*    by zero, which Div records as a zero denominator.                    *)
(*  - A quotient of two float64 is the pair [num, den] (see Div).          *)
(*  - A Go slice is a header [arr, len] over a backing array held in mem,  *)
(*    so that two slices over one array see each other's writes.           *)
(*  - A Go map is a function; ranging over it visits its keys in an order  *)
(*    the language leaves unspecified.                                     *)
(*  - Standard output is the sequence of the Printf/Println calls made,    *)
(*    each with its arguments.                                             *)
(***************************************************************************)
EXTENDS Integers, Sequences, FiniteSets, TLC

VARIABLES
    pc,              \* where main is
    file,            \* the command line and the workbook it names
    i,               \* parseExcel: index of the next data row (0-based in rows[1:])
    mem,             \* backing arrays of the slices, by array id
    students,        \* parseExcel's / main's students slice header
    out,             \* standard output
    averages,        \* main's averages map
    branchAverages,  \* main's branchAverages map
    ci,              \* rankStudents: index of the next category (1-based)
    rankings,        \* rankStudents' rankings map: category -> slice header
    iter,            \* two runs compared: the keys each run's range loop has visited
    same             \* two runs compared: the two outputs are identical so far

vars == <<pc, file, i, mem, students, out, averages, branchAverages, ci,
          rankings, iter, same>>

(***************************************************************************)
(* Bounds of the model.                                                    *)
(***************************************************************************)
\* most data rows (rows after the header) of a sheet
MaxDataRows == 4
\* most data rows of a sheet when two runs are compared
MaxRunsDataRows == 1

(***************************************************************************)
(* Strings and numbers.                                                    *)
(***************************************************************************)
Char(s, k) == SubSeq(s, k, k)

Digits == {"0", "1", "2", "3", "4", "5", "6", "7", "8", "9"}

DigitVal(c) ==
    CASE c = "0" -> 0 [] c = "1" -> 1 [] c = "2" -> 2 [] c = "3" -> 3
      [] c = "4" -> 4 [] c = "5" -> 5 [] c = "6" -> 6 [] c = "7" -> 7
      [] c = "8" -> 8 [] c = "9" -> 9

AllDigits(s, a, b) == \A k \in a..b : Char(s, k) \in Digits

\* the value of the decimal digits s[a..b], most significant first
RECURSIVE DigitsVal(_, _, _, _)
DigitsVal(s, a, b, acc) ==
    IF a > b THEN acc
    ELSE DigitsVal(s, a + 1, b, acc * 10 + DigitVal(Char(s, a)))

Signed(s) == Len(s) > 0 /\ Char(s, 1) \in {"+", "-"}

Sign(s) == IF Signed(s) /\ Char(s, 1) = "-" THEN -1 ELSE 1

\* strconv.Atoi: an optional sign and one or more decimal digits.
\* On a syntax error it returns 0 and the error.
Atoi(s) ==
    LET first == IF Signed(s) THEN 2 ELSE 1
    IN  IF first <= Len(s) /\ AllDigits(s, first, Len(s))
        THEN [val |-> Sign(s) * DigitsVal(s, first, Len(s), 0), err |-> FALSE]
        ELSE [val |-> 0, err |-> TRUE]

\* position of the first "." of s, 0 when it has none
DotPos(s) ==
    IF \E k \in 1..Len(s) : Char(s, k) = "."
    THEN CHOOSE k \in 1..Len(s) :
            Char(s, k) = "." /\ \A j \in 1..(k - 1) : Char(s, j) # "."
    ELSE 0

\* weight, in thousandths, of the k-th digit after the point
FracWeight(k) == CASE k = 1 -> 100 [] k = 2 -> 10 [] k = 3 -> 1 [] OTHER -> 0

RECURSIVE FracVal(_, _, _, _)
FracVal(s, a, b, k) ==
    IF a > b THEN 0
    ELSE DigitVal(Char(s, a)) * FracWeight(k) + FracVal(s, a + 1, b, k + 1)

\* strconv.ParseFloat(s, 64) on plain decimal notation: an optional sign,
\* digits, an optional point and digits, at least one digit in all. The
\* value is in thousandths (cells carry at most three decimals). Any other
\* string is taken as a syntax error, for which ParseFloat returns 0 and
\* the error; the notations Go accepts beyond plain decimals (exponents,
\* hexadecimal, "inf", "nan") are not among the cells of the model.
ParseFloat(s) ==
    LET first == IF Signed(s) THEN 2 ELSE 1
        dot   == DotPos(s)
        intTo == IF dot = 0 THEN Len(s) ELSE dot - 1
        ok    == /\ first <= Len(s)
                 /\ dot = 0 \/ dot >= first
                 /\ AllDigits(s, first, intTo)
                 /\ dot # 0 => AllDigits(s, dot + 1, Len(s))
                 /\ (intTo - first + 1) + (IF dot = 0 THEN 0 ELSE Len(s) - dot) >= 1
    IN  IF ok
        THEN [val |-> Sign(s) * (DigitsVal(s, first, intTo, 0) * 1000
                        + (IF dot = 0 THEN 0 ELSE FracVal(s, dot + 1, Len(s), 1))),
              err |-> FALSE]
        ELSE [val |-> 0, err |-> TRUE]

\* the parseFloat closure of parseRow: an empty cell is 0
parseFloat(s) == IF s = "" THEN [val |-> 0, err |-> FALSE] ELSE ParseFloat(s)

Abs(x) == IF x < 0 THEN -x ELSE x

\* the tolerance 0.01, in thousandths
epsilon == 10

\* a variant that takes a difference of exactly the tolerance as equal
almostEqualInclusive(a, b) == Abs(a - b) <= epsilon

almostEqual(a, b) == Abs(a - b) < epsilon

min(a, b) == IF a < b THEN a ELSE b

\* a float64 division. The quotient is kept as the pair of its operands:
\* den = 0 is the division by zero (NaN for 0/0, an infinity otherwise).
Div(a, b) == [num |-> a, den |-> b]

IsNaN(q) == q.num = 0 /\ q.den = 0

(***************************************************************************)
(* Maps and slices.                                                        *)
(***************************************************************************)
EmptyMap == [k \in {} |-> 0]

\* m[k] += v on a Go map: a missing key reads as the zero value
MapAdd(m, k, v) ==
    IF k \in DOMAIN m THEN [m EXCEPT ![k] = @ + v]
    ELSE [x \in DOMAIN m \cup {k} |-> IF x = k THEN v ELSE m[x]]

\* m[k] = v on a Go map
MapSet(m, k, v) == [x \in DOMAIN m \cup {k} |-> IF x = k THEN v ELSE m[x]]

\* the elements a slice header sees in memory m
View(m, sl) == SubSeq(m[sl.arr], 1, sl.len)

(***************************************************************************)
(* parseRow                                                                *)
(***************************************************************************)
\* Student{}: the zero value
EmptyStudent ==
    [SlNo |-> 0, ClassNo |-> 0, Emplid |-> "", CampusID |-> "",
     Quiz |-> 0, MidSem |-> 0, LabTest |-> 0, WeeklyLabs |-> 0,
     PreCompre |-> 0, Compre |-> 0, Total |-> 0, ComputedSum |-> 0]

\* The variable err after the seven parseFloat calls of lines 85-91: every
\* call assigns it, so line 93 tests the error of the last call alone.
ScoreErr(results) == results[Len(results)].err

\* parseRow(rowNum, row), row with at least 11 cells. Go indexes cells from
\* 0, a sequence from 1. printed: the Printf calls it makes.
parseRow(rowNum, row) ==
    LET slNo       == Atoi(row[1])
        classNo    == Atoi(row[2])
        quiz       == parseFloat(row[5])
        midSem     == parseFloat(row[6])
        labTest    == parseFloat(row[7])
        weeklyLabs == parseFloat(row[8])
        preCompre  == parseFloat(row[9])
        compre     == parseFloat(row[10])
        total      == parseFloat(row[11])
        err        == ScoreErr(<<quiz, midSem, labTest, weeklyLabs,
                                 preCompre, compre, total>>)
        computedPreCompre == quiz.val + midSem.val + labTest.val + weeklyLabs.val
        computedSum == quiz.val + midSem.val + labTest.val + weeklyLabs.val
                         + compre.val
        printPre == IF ~almostEqual(computedPreCompre, preCompre.val)
                    THEN <<[fmt |-> "Error: Mismatch in PreCompre at row",
                            row |-> rowNum, expected |-> computedPreCompre,
                            found |-> preCompre.val]>>
                    ELSE <<>>
        printTot == IF ~almostEqual(computedSum, total.val)
                    THEN <<[fmt |-> "Error: Mismatch in total at row",
                            row |-> rowNum, expected |-> computedSum,
                            found |-> total.val]>>
                    ELSE <<>>
    IN  IF slNo.err
        THEN [ok |-> FALSE, err |-> "invalid Sl No at row", student |-> EmptyStudent,
              printed |-> <<>>]
        ELSE IF classNo.err
        THEN [ok |-> FALSE, err |-> "invalid Class No at row", student |-> EmptyStudent,
              printed |-> <<>>]
        ELSE IF err
        THEN [ok |-> FALSE, err |-> "invalid numeric data at row",
              student |-> EmptyStudent, printed |-> <<>>]
        ELSE [ok |-> TRUE, err |-> "",
              student |-> [SlNo |-> slNo.val, ClassNo |-> classNo.val,
                           Emplid |-> row[3], CampusID |-> row[4],
                           Quiz |-> quiz.val, MidSem |-> midSem.val,
                           LabTest |-> labTest.val, WeeklyLabs |-> weeklyLabs.val,
                           PreCompre |-> preCompre.val, Compre |-> compre.val,
                           Total |-> total.val, ComputedSum |-> computedSum],
              printed |-> printPre \o printTot]

(***************************************************************************)
(* computeAverages                                                         *)
(***************************************************************************)
Components ==
    {"Quiz", "MidSem", "LabTest", "WeeklyLabs", "PreCompre", "Compre", "Total"}

\* one iteration of the loop of lines 132-140
addScores(sum, s) ==
    MapAdd(MapAdd(MapAdd(MapAdd(MapAdd(MapAdd(MapAdd(sum,
        "Quiz", s.Quiz), "MidSem", s.MidSem), "LabTest", s.LabTest),
        "WeeklyLabs", s.WeeklyLabs), "PreCompre", s.PreCompre),
        "Compre", s.Compre), "Total", s.Total)

RECURSIVE sumLoop(_, _, _)
sumLoop(list, k, sum) ==
    IF k > Len(list) THEN sum ELSE sumLoop(list, k + 1, addScores(sum, list[k]))

\* a variant that starts from a sum map holding every component at 0
computeAveragesZeroed(list) ==
    LET sum == sumLoop(list, 1, [k \in Components |-> 0])
    IN  [key \in DOMAIN sum |-> Div(sum[key], Len(list))]

\* a variant that adds every PreCompre to the Compre sum as well
computeAveragesMixed(list) ==
    LET sum == sumLoop(list, 1, EmptyMap)
    IN  [key \in DOMAIN sum |->
            Div(IF key = "Compre" THEN sum[key] + sum["PreCompre"] ELSE sum[key],
                Len(list))]

\* sum starts empty: it has a key only once a student has been added
computeAverages(list) ==
    LET sum   == sumLoop(list, 1, EmptyMap)
        count == Len(list)
    IN  [key \in DOMAIN sum |-> Div(sum[key], count)]

(***************************************************************************)
(* computeBranchAverages                                                   *)
(***************************************************************************)
\* strings.Contains(s, sub) for a one-character sub
Contains(s, sub) == \E k \in 1..Len(s) : Char(s, k) = sub

yearPrefix(campusID) == SubSeq(campusID, 1, 4)

branchCode(campusID) == SubSeq(campusID, 5, 6)

\* a variant that forgets the branch filter
inBranchReportAnyBranch(s) ==
    Len(s.CampusID) >= 6 /\ yearPrefix(s.CampusID) = "2024"

\* the record is counted by the branch report (lines 156-162)
inBranchReport(s) ==
    /\ Len(s.CampusID) >= 6
    /\ yearPrefix(s.CampusID) = "2024"
    /\ Contains(branchCode(s.CampusID), "A")

RECURSIVE branchLoop(_, _, _)
branchLoop(list, k, acc) ==
    IF k > Len(list) THEN acc
    ELSE LET s == list[k]
         IN  IF inBranchReport(s)
             THEN branchLoop(list, k + 1,
                    [branchTotal |-> MapAdd(acc.branchTotal,
                                            branchCode(s.CampusID), s.Total),
                     branchCount |-> MapAdd(acc.branchCount,
                                            branchCode(s.CampusID), 1)])
             ELSE branchLoop(list, k + 1, acc)

computeBranchAverages(list) ==
    LET acc == branchLoop(list, 1, [branchTotal |-> EmptyMap,
                                    branchCount |-> EmptyMap])
    IN  [branch \in DOMAIN acc.branchTotal |->
            Div(acc.branchTotal[branch], acc.branchCount[branch])]

(***************************************************************************)
(* rankStudents                                                            *)
(***************************************************************************)
categories ==
    <<"Quiz", "MidSem", "LabTest", "WeeklyLabs", "PreCompre", "Compre", "Total">>

getScoreByCategory(student, category) ==
    CASE category = "Quiz"       -> student.Quiz
      [] category = "MidSem"     -> student.MidSem
      [] category = "LabTest"    -> student.LabTest
      [] category = "WeeklyLabs" -> student.WeeklyLabs
      [] category = "PreCompre"  -> student.PreCompre
      [] category = "Compre"     -> student.Compre
      [] category = "Total"      -> student.Total
      [] OTHER                   -> 0

\* a variant that orders ascending
lessAscending(a, b, category) ==
    getScoreByCategory(a, category) < getScoreByCategory(b, category)

\* the less function handed to sort.Slice (line 188)
less(a, b, category) ==
    getScoreByCategory(a, category) > getScoreByCategory(b, category)

Swap(data, a, b) ==
    [data EXCEPT ![a] = data[b], ![b] = data[a]]

\* sort.Slice on at most 12 elements is an insertion sort:
\*   for i := 1; i < n; i++ {
\*       for j := i; j > 0 && less(j, j-1); j-- { swap(j, j-1) } }
RECURSIVE sinkDown(_, _, _)
sinkDown(data, j, category) ==
    IF j > 1 /\ less(data[j], data[j - 1], category)
    THEN sinkDown(Swap(data, j, j - 1), j - 1, category)
    ELSE data

RECURSIVE insertionSort(_, _, _)
insertionSort(data, k, category) ==
    IF k > Len(data) THEN data
    ELSE insertionSort(sinkDown(data, k, category), k + 1, category)

sortSlice(data, category) == insertionSort(data, 2, category)

\* a variant that sorts the caller's slice itself
aliasSlice(m, sl, id) == [mem |-> m, slice |-> sl]

\* append([]Student{}, sl...): a new backing array id holding sl's elements
copySlice(m, sl, id) ==
    [mem   |-> [x \in DOMAIN m \cup {id} |-> IF x = id THEN View(m, sl) ELSE m[x]],
     slice |-> [arr |-> id, len |-> sl.len]]

\* append(sl, x). sl is the only slice over its array here, so whether the
\* array is grown in place or moved cannot be observed.
appendSlice(m, sl, x) ==
    [mem   |-> [m EXCEPT ![sl.arr] = Append(SubSeq(@, 1, sl.len), x)],
     slice |-> [arr |-> sl.arr, len |-> sl.len + 1]]

(***************************************************************************)
(* The inputs: the command line and the workbook.                          *)
(***************************************************************************)
Header ==
    <<"Sl No", "Class No", "Emplid", "Campus ID", "Quiz", "Mid Sem", "Lab Test",
      "Weekly Labs", "Pre-Compre", "Compre", "Total">>

\* the rows a sheet is made of
\* consistent sums, branch A7
RowA == <<"1", "1", "E001", "2024A7PS", "8", "25", "9", "9", "51", "40", "91">>
\* declared total 95 against a sum of 91, branch A7
RowB == <<"2", "1", "E002", "2024A7TS", "8", "25", "9", "9", "51", "40", "95">>
\* quiz is not a number, every other score is; year 2023
RowC == <<"3", "2", "E003", "2023A7PS", "abc", "25", "9", "9", "43", "40", "83">>
\* total is not a number
RowD == <<"4", "2", "E004", "2024A7PS", "8", "25", "9", "9", "51", "40", "n/a">>
\* ten cells only
RowE == <<"5", "2", "E005", "2024A7PS", "8", "25", "9", "9", "51", "40">>
\* empty cells; preCompre off by exactly 0.01, total off by 0.005; branch 1A
RowF == <<"8", "3", "E008", "20241APS", "0.01", "", "", "", "0", "", "0.015">>
\* twelve cells, a campus id of five characters, the highest scores
RowG == <<"9", "3", "E009", "2024A", "9.5", "30", "10", "10", "59.5", "45",
          "104.5", "note">>
\* a branch code without an A
RowH == <<"10", "3", "E010", "2024B1PS", "9.5", "20", "9", "9", "47.5", "40",
          "87.5">>

RowPool == {RowA, RowB, RowC, RowD, RowE, RowF, RowG, RowH}

\* the sequences of at most n rows of S, no row twice (a row carries its
\* own serial number)
SeqsUpTo(S, n) ==
    UNION {{q \in [1..m -> S] : \A a, b \in 1..m : a # b => q[a] # q[b]} :
            m \in 0..n}

\* what GetRows can return: no row at all, or a header and up to n data rows
Sheets(n) == {<<>>} \cup {<<Header>> \o data : data \in SeqsUpTo(RowPool, n)}

Files(n) ==
    {[arg |-> FALSE, openOk |-> FALSE, readOk |-> FALSE, rows |-> <<>>],
     [arg |-> TRUE, openOk |-> FALSE, readOk |-> FALSE, rows |-> <<>>],
     [arg |-> TRUE, openOk |-> TRUE, readOk |-> FALSE, rows |-> <<>>]}
    \cup {[arg |-> TRUE, openOk |-> TRUE, readOk |-> TRUE, rows |-> r] :
            r \in Sheets(n)}

Runs == {1, 2}

InitWith(n) ==
    /\ pc = "start"
    /\ file \in Files(n)
    /\ i = 0
    /\ mem = [x \in {0} |-> <<>>]
    /\ students = [arr |-> 0, len |-> 0]
    /\ out = <<>>
    /\ averages = EmptyMap
    /\ branchAverages = EmptyMap
    /\ ci = 1
    /\ rankings = EmptyMap
    /\ iter = [r \in Runs |-> {}]
    /\ same = TRUE

Init == InitWith(MaxDataRows)

(***************************************************************************)
(* main and parseExcel, step by step.                                      *)
(***************************************************************************)
\* main, lines 226-231
MainStart ==
    /\ pc = "start"
    /\ IF ~file.arg
       THEN /\ out' = Append(out, [fmt |-> "Usage: go run main.go <path-to-excel-file>"])
            /\ pc' = "exit"
       ELSE /\ pc' = "open"
            /\ UNCHANGED out
    /\ UNCHANGED <<file, i, mem, students, averages, branchAverages, ci,
                   rankings, iter, same>>

\* parseExcel, lines 31-45, and main's lines 233-236 when it fails.
\* rows[1:] of a slice of length 0 panics (slice bounds out of range).
OpenFile ==
    /\ pc = "open"
    /\ IF ~file.openOk
       THEN /\ out' = Append(out, [fmt |-> "Error: failed to open file"])
            /\ pc' = "exit"
       ELSE IF ~file.readOk
       THEN /\ out' = Append(out, [fmt |-> "Error: failed to read sheet"])
            /\ pc' = "exit"
       ELSE IF Len(file.rows) < 1
       THEN /\ pc' = "panic"
            /\ UNCHANGED out
       ELSE /\ pc' = "parse"
            /\ UNCHANGED out
    /\ UNCHANGED <<file, i, mem, students, averages, branchAverages, ci,
                   rankings, iter, same>>

\* a loop body that keeps the result of a failed parseRow
loopBodyNoContinue(m, sl, o, rowNum, row) ==
    IF Len(row) < 11
    THEN [mem |-> m, students |-> sl, out |-> o]
    ELSE LET res == parseRow(rowNum, row)
             app == appendSlice(m, sl, res.student)
         IN  [mem |-> app.mem, students |-> app.slice,
              out |-> IF ~res.ok
                      THEN Append(o, [fmt |-> "Error parsing row", row |-> rowNum,
                                      err |-> res.err])
                      ELSE o \o res.printed]

\* the body of the loop of parseExcel, lines 46-56, on the row numbered
\* rowNum: memory, the students slice and standard output after it
loopBody(m, sl, o, rowNum, row) ==
    IF Len(row) < 11
    THEN [mem |-> m, students |-> sl, out |-> o]
    ELSE LET res == parseRow(rowNum, row)
         IN  IF ~res.ok
             THEN [mem |-> m, students |-> sl,
                   out |-> Append(o, [fmt |-> "Error parsing row", row |-> rowNum,
                                      err |-> res.err])]
             ELSE LET app == appendSlice(m, sl, res.student)
                  IN  [mem |-> app.mem, students |-> app.slice,
                       out |-> o \o res.printed]

\* one iteration of the loop of parseExcel: data row i is rows[1:][i],
\* the sheet's row i + 2
ParseRowStep ==
    /\ pc = "parse"
    /\ i < Len(file.rows) - 1
    /\ LET after == loopBody(mem, students, out, i + 2, file.rows[i + 2])
       IN  /\ mem' = after.mem
           /\ students' = after.students
           /\ out' = after.out
    /\ i' = i + 1
    /\ UNCHANGED <<pc, file, averages, branchAverages, ci, rankings, iter, same>>

\* parseExcel returns (line 59), main goes on (lines 232-236)
ParseReturn ==
    /\ pc = "parse"
    /\ i = Len(file.rows) - 1
    /\ pc' = "averages"
    /\ UNCHANGED <<file, i, mem, students, out, averages, branchAverages, ci,
                   rankings, iter, same>>

\* the line main prints for one key of averages (line 241)
averageLine(av, key) == [key |-> key, val |-> av[key]]

\* the line main prints for one key of branchAverages (line 247)
branchLine(av, branch) == [branch |-> branch, avg |-> av[branch]]

\* the block main prints for one key of rankings (lines 253-256)
rankingBlock(m, rk, category) ==
    LET top == View(m, rk[category])
    IN  [category |-> category,
         entries |-> [r \in 1..Len(top) |->
                        [rank |-> r, emplid |-> top[r].Emplid,
                         score |-> getScoreByCategory(top[r], category)]]]

\* main, lines 238-242. The lines of the range loop are recorded as a set:
\* their order is the map's iteration order.
ReportAverages ==
    /\ pc = "averages"
    /\ LET av == computeAverages(View(mem, students))
       IN  /\ averages' = av
           /\ out' = out \o <<[fmt |-> "--- Average Scores ---"],
                              [fmt |-> "%s: %.2f",
                               lines |-> {averageLine(av, k) : k \in DOMAIN av}]>>
    /\ pc' = "branch"
    /\ UNCHANGED <<file, i, mem, students, branchAverages, ci, rankings, iter, same>>

\* main, lines 244-248
ReportBranch ==
    /\ pc = "branch"
    /\ LET av == computeBranchAverages(View(mem, students))
       IN  /\ branchAverages' = av
           /\ out' = out \o <<[fmt |-> "--- Branch-wise Averages (2024 Batch) ---"],
                              [fmt |-> "Branch %s: %.2f",
                               lines |-> {branchLine(av, b) : b \in DOMAIN av}]>>
    /\ pc' = "rank"
    /\ UNCHANGED <<file, i, mem, students, averages, ci, rankings, iter, same>>

\* one iteration of the loop of rankStudents, lines 183-191; the first
\* follows main's line 250. The copy's backing array gets the id ci.
RankCategory ==
    /\ pc = "rank"
    /\ ci <= Len(categories)
    /\ LET category == categories[ci]
           cp       == copySlice(mem, students, ci)
           sorted   == sortSlice(View(cp.mem, cp.slice), category)
       IN  /\ mem' = [cp.mem EXCEPT ![cp.slice.arr] = sorted]
           /\ rankings' = MapSet(rankings, category,
                                 [arr |-> cp.slice.arr,
                                  len |-> min(3, cp.slice.len)])
    /\ out' = IF ci = 1
              THEN Append(out, [fmt |-> "--- Top 3 Students Per Component ---"])
              ELSE out
    /\ ci' = ci + 1
    /\ UNCHANGED <<pc, file, i, students, averages, branchAverages, iter, same>>

\* rankStudents returns; main, lines 252-257
ReportRankings ==
    /\ pc = "rank"
    /\ ci > Len(categories)
    /\ out' = Append(out, [fmt |-> "%s: / Rank:%d. %s - %.2f",
                            lines |-> {rankingBlock(mem, rankings, c) :
                                        c \in DOMAIN rankings}])
    /\ pc' = "done"
    /\ UNCHANGED <<file, i, mem, students, averages, branchAverages, ci,
                   rankings, iter, same>>

Next ==
    \/ MainStart
    \/ OpenFile
    \/ ParseRowStep
    \/ ParseReturn
    \/ ReportAverages
    \/ ReportBranch
    \/ RankCategory
    \/ ReportRankings

Spec == Init /\ [][Next]_vars

(***************************************************************************)
(* Two runs of main on the same file, side by side.                        *)
(*                                                                         *)
(* Both runs read the same rows, so parseExcel and the three aggregations, *)
(* which are functions of the rows, are taken once. Each run has its own   *)
(* map iterators: iter[r] is the set of keys run r's current range loop    *)
(* has visited. The runs step their loops together, and same records       *)
(* whether every line printed so far was the same in both.                 *)
(***************************************************************************)
RunsAveragesBegin ==
    /\ pc = "averages"
    /\ averages' = computeAverages(View(mem, students))
    /\ iter' = [r \in Runs |-> {}]
    /\ pc' = "averages_loop"
    /\ UNCHANGED <<file, i, mem, students, out, branchAverages, ci, rankings, same>>

\* one iteration of the loop of lines 240-242 in each run
RunsAveragesLine ==
    /\ pc = "averages_loop"
    /\ \E k1 \in DOMAIN averages \ iter[1], k2 \in DOMAIN averages \ iter[2] :
          /\ iter' = [iter EXCEPT ![1] = @ \cup {k1}, ![2] = @ \cup {k2}]
          /\ same' = (same /\ averageLine(averages, k1) = averageLine(averages, k2))
    /\ UNCHANGED <<pc, file, i, mem, students, out, averages, branchAverages, ci,
                   rankings>>

RunsBranchBegin ==
    /\ pc = "averages_loop"
    /\ \A r \in Runs : iter[r] = DOMAIN averages
    /\ branchAverages' = computeBranchAverages(View(mem, students))
    /\ iter' = [r \in Runs |-> {}]
    /\ pc' = "branch_loop"
    /\ UNCHANGED <<file, i, mem, students, out, averages, ci, rankings, same>>

\* one iteration of the loop of lines 246-248 in each run
RunsBranchLine ==
    /\ pc = "branch_loop"
    /\ \E k1 \in DOMAIN branchAverages \ iter[1],
          k2 \in DOMAIN branchAverages \ iter[2] :
          /\ iter' = [iter EXCEPT ![1] = @ \cup {k1}, ![2] = @ \cup {k2}]
          /\ same' = (same /\ branchLine(branchAverages, k1)
                                = branchLine(branchAverages, k2))
    /\ UNCHANGED <<pc, file, i, mem, students, out, averages, branchAverages, ci,
                   rankings>>

RunsRankBegin ==
    /\ pc = "branch_loop"
    /\ \A r \in Runs : iter[r] = DOMAIN branchAverages
    /\ pc' = "rank"
    /\ UNCHANGED <<file, i, mem, students, out, averages, branchAverages, ci,
                   rankings, iter, same>>

RunsRankingsBegin ==
    /\ pc = "rank"
    /\ ci > Len(categories)
    /\ iter' = [r \in Runs |-> {}]
    /\ pc' = "rankings_loop"
    /\ UNCHANGED <<file, i, mem, students, out, averages, branchAverages, ci,
                   rankings, same>>

\* one iteration of the loop of lines 252-257 in each run
RunsRankingsBlock ==
    /\ pc = "rankings_loop"
    /\ \E k1 \in DOMAIN rankings \ iter[1], k2 \in DOMAIN rankings \ iter[2] :
          /\ iter' = [iter EXCEPT ![1] = @ \cup {k1}, ![2] = @ \cup {k2}]
          /\ same' = (same /\ rankingBlock(mem, rankings, k1)
                                = rankingBlock(mem, rankings, k2))
    /\ UNCHANGED <<pc, file, i, mem, students, out, averages, branchAverages, ci,
                   rankings>>

RunsDone ==
    /\ pc = "rankings_loop"
    /\ \A r \in Runs : iter[r] = DOMAIN rankings
    /\ pc' = "done"
    /\ UNCHANGED <<file, i, mem, students, out, averages, branchAverages, ci,
                   rankings, iter, same>>

InitRuns == InitWith(MaxRunsDataRows)

NextRuns ==
    \/ MainStart
    \/ OpenFile
    \/ ParseRowStep
    \/ ParseReturn
    \/ RunsAveragesBegin
    \/ RunsAveragesLine
    \/ RunsBranchBegin
    \/ RunsBranchLine
    \/ RunsRankBegin
    \/ RankCategory
    \/ RunsRankingsBegin
    \/ RunsRankingsBlock
    \/ RunsDone

SpecRuns == InitRuns /\ [][NextRuns]_vars

(***************************************************************************)
(* Vocabulary of the properties.                                           *)
(***************************************************************************)
\* data row j (1-based) of the sheet, and the number parseExcel gives it
DataRow(j) == file.rows[j + 1]

RowNumber(j) == j + 1

\* parseRow's result on every row of the pool that reaches it, taken once
\* (the row number only shows in what parseRow prints)
Parsed == [row \in {r \in RowPool : Len(r) >= 11} |-> parseRow(0, row)]

\* the row reaches parseRow and parseRow fails on it
ParseFails(j) == Len(DataRow(j)) >= 11 /\ ~Parsed[DataRow(j)].ok

\* parseExcel skips the row
Skipped(j) == Len(DataRow(j)) < 11 \/ ParseFails(j)

\* the records of the data rows 1..j that parseExcel does not skip, in order
RECURSIVE RecordsUpTo(_)
RecordsUpTo(j) ==
    IF j = 0 THEN <<>>
    ELSE IF Skipped(j) THEN RecordsUpTo(j - 1)
    ELSE Append(RecordsUpTo(j - 1), Parsed[DataRow(j)].student)

\* a row of 11+ cells with integer serial and class number, one of whose
\* seven score cells is neither empty nor a number
HasBadScore(row) ==
    /\ Len(row) >= 11
    /\ ~Atoi(row[1]).err
    /\ ~Atoi(row[2]).err
    /\ \E c \in 5..11 : row[c] # "" /\ ParseFloat(row[c]).err

\* the records of the data rows 1..j when rows with a bad score are left out too
RECURSIVE RecordsWithoutBadScores(_)
RecordsWithoutBadScores(j) ==
    IF j = 0 THEN <<>>
    ELSE IF Skipped(j) \/ HasBadScore(DataRow(j))
    THEN RecordsWithoutBadScores(j - 1)
    ELSE Append(RecordsWithoutBadScores(j - 1), Parsed[DataRow(j)].student)

\* standard output holds a line of this format naming this row
Printed(fmt, rowNum) ==
    \E k \in 1..Len(out) : out[k].fmt = fmt /\ out[k].row = rowNum

StudentList == View(mem, students)

AfterAverages ==
    pc \in {"averages_loop", "branch", "branch_loop", "rank", "rankings_loop", "done"}

AfterBranch == pc \in {"branch_loop", "rank", "rankings_loop", "done"}

Readable == file.arg /\ file.openOk /\ file.readOk

\* the sum of field over the positions J of list
RECURSIVE FieldSum(_, _, _)
FieldSum(list, J, field) ==
    IF J = {} THEN 0
    ELSE LET j == CHOOSE x \in J : TRUE
         IN  list[j][field] + FieldSum(list, J \ {j}, field)

\* how often x occurs in seq
Count(seq, x) == Cardinality({j \in 1..Len(seq) : seq[j] = x})

(***************************************************************************)
(* C1: a row of 11+ cells with integer serial and class number and a       *)
(* non-empty, non-numeric cell in any of the seven score columns yields no *)
(* record: the record list is the list of the other accepted rows.         *)
(***************************************************************************)
C1_BadScoreRowOmitted ==
    pc = "parse" => StudentList = RecordsWithoutBadScores(i)

RankingOK(category) ==
    LET list  == StudentList
        top   == View(mem, rankings[category])
        Score(s) == s[category]
        left  == {x \in {list[j] : j \in 1..Len(list)} :
                    Count(list, x) > Count(top, x)}
    IN  /\ Len(top) = (IF Len(list) < 3 THEN Len(list) ELSE 3)
        /\ \A r \in 1..Len(top) : Count(top, top[r]) <= Count(list, top[r])
        /\ \A r \in 1..(Len(top) - 1) : Score(top[r]) >= Score(top[r + 1])
        /\ \A x \in left : \A r \in 1..Len(top) : ~(Score(x) > Score(top[r]))

C3_TopThreePerCategory ==
    /\ pc = "rank" =>
          \A k \in 1..(ci - 1) :
              categories[k] \in DOMAIN rankings /\ RankingOK(categories[k])
    /\ pc = "done" =>
          /\ DOMAIN rankings = Components
          /\ \A c \in Components : RankingOK(c)

\* four or more records; in the Quiz ranking two records tie and a record
\* with a strictly lower score is left out
C3_Witness ==
    /\ pc = "done"
    /\ students.len >= 4
    /\ LET top == View(mem, rankings["Quiz"])
       IN  /\ \E r \in 1..2 : top[r].Quiz = top[r + 1].Quiz
           /\ \E j \in 1..students.len : StudentList[j].Quiz < top[3].Quiz

(***************************************************************************)
(* C4: no step of rankStudents changes the record list, nor the ranking    *)
(* already stored for another category.                                    *)
(***************************************************************************)
C4_RankingLeavesListAndOthers ==
    [][pc = "rank" =>
          /\ View(mem', students') = View(mem, students)
          /\ \A c \in DOMAIN rankings :
                /\ c \in DOMAIN rankings'
                /\ View(mem', rankings'[c]) = View(mem, rankings[c])]_vars

\* all categories ranked, a sort changed the order, two rankings differ
C4_Witness ==
    /\ pc = "done"
    /\ students.len >= 2
    /\ \E c \in DOMAIN rankings :
          View(mem, rankings[c]) # SubSeq(StudentList, 1, rankings[c].len)
    /\ \E c, d \in DOMAIN rankings :
          View(mem, rankings[c]) # View(mem, rankings[d])

(***************************************************************************)
(* C5: the keys of the branch averages are exactly the branch codes        *)
(* (characters 5-6 of campusId) of the records whose campusId has 6 or     *)
(* more characters, starts with "2024" and has an "A" in its branch code;  *)
(* each value is the mean of total over those records with that code; no   *)
(* entry is a division by zero; with no such record the map is empty.      *)
(***************************************************************************)
Matches(s) ==
    /\ Len(s.CampusID) >= 6
    /\ SubSeq(s.CampusID, 1, 4) = "2024"
    /\ (Char(s.CampusID, 5) = "A" \/ Char(s.CampusID, 6) = "A")

C5_BranchAverages ==
    AfterBranch =>
        LET list == StudentList
            M    == {j \in 1..Len(list) : Matches(list[j])}
            Of(b) == {j \in M : SubSeq(list[j].CampusID, 5, 6) = b}
        IN  /\ DOMAIN branchAverages = {SubSeq(list[j].CampusID, 5, 6) : j \in M}
            /\ \A b \in DOMAIN branchAverages :
                  /\ branchAverages[b].den = Cardinality(Of(b))
                  /\ branchAverages[b].den > 0
                  /\ branchAverages[b].num = FieldSum(list, Of(b), "Total")
            /\ M = {} => branchAverages = EmptyMap

\* two branch codes, one of them with two records, and a record left out
C5_Witness ==
    /\ AfterBranch
    /\ Cardinality(DOMAIN branchAverages) >= 2
    /\ \E b \in DOMAIN branchAverages : branchAverages[b].den >= 2
    /\ \E j \in 1..students.len : ~Matches(StudentList[j])

(***************************************************************************)
(* C6: when parseRow accepts a row, its record holds the parsed cells, the *)
(* declared preCompre and total untouched and ComputedSum = quiz + midSem  *)
(* + labTest + weeklyLabs + compre; the preCompre (total) mismatch line is *)
(* printed for the row exactly when the difference between quiz + midSem + *)
(* labTest + weeklyLabs (plus compre) and the declared preCompre (total)   *)
(* is not strictly below 0.01.                                             *)
(***************************************************************************)
C6_MismatchDiagnostics ==
    (pc = "parse" /\ i >= 1 /\ ~Skipped(i)) =>
        LET row == DataRow(i)
            s   == StudentList[students.len]
            pre == s.Quiz + s.MidSem + s.LabTest + s.WeeklyLabs
        IN  /\ s.Quiz = parseFloat(row[5]).val
            /\ s.MidSem = parseFloat(row[6]).val
            /\ s.LabTest = parseFloat(row[7]).val
            /\ s.WeeklyLabs = parseFloat(row[8]).val
            /\ s.PreCompre = parseFloat(row[9]).val
            /\ s.Compre = parseFloat(row[10]).val
            /\ s.Total = parseFloat(row[11]).val
            /\ s.ComputedSum = pre + s.Compre
            /\ Printed("Error: Mismatch in PreCompre at row", RowNumber(i))
                 <=> ~(Abs(pre - s.PreCompre) < epsilon)
            /\ Printed("Error: Mismatch in total at row", RowNumber(i))
                 <=> ~(Abs(pre + s.Compre - s.Total) < epsilon)

\* an accepted row whose preCompre is off by exactly the tolerance (a line
\* is printed) and whose total is off by less (none is)
C6_Witness ==
    /\ pc = "parse" /\ i >= 1 /\ ~Skipped(i)
    /\ LET s == StudentList[students.len]
           pre == s.Quiz + s.MidSem + s.LabTest + s.WeeklyLabs
       IN  /\ Abs(pre - s.PreCompre) = epsilon
           /\ Printed("Error: Mismatch in PreCompre at row", RowNumber(i))
           /\ Abs(pre + s.Compre - s.Total) > 0
           /\ ~Printed("Error: Mismatch in total at row", RowNumber(i))

(***************************************************************************)
(* C7: two runs of the pipeline on the same file print the same lines in   *)
(* the same order.                                                         *)
(***************************************************************************)
C7_TwoRunsPrintTheSame == pc = "done" => same

(***************************************************************************)
(* C8: when the workbook opens and its first sheet is read, whatever the   *)
(* rows, the run neither crashes nor ends before the reports.              *)
(***************************************************************************)
C8_ReadableWorkbookCompletes == Readable => pc \notin {"panic", "exit"}

(***************************************************************************)
(* C9: for a non-empty record list the averages have exactly the seven     *)
(* components as keys, each the sum of that field over all the records     *)
(* divided by the number of records.                                       *)
(***************************************************************************)
C9_SevenMeans ==
    (AfterAverages /\ students.len >= 1) =>
        /\ DOMAIN averages = Components
        /\ \A c \in Components :
              averages[c] = Div(FieldSum(StudentList, 1..students.len, c),
                                students.len)

\* several records, one of them outside the branch report, with different
\* PreCompre and Compre sums
C9_Witness ==
    /\ AfterBranch
    /\ students.len >= 3
    /\ \E j \in 1..students.len : ~Matches(StudentList[j])
    /\ DOMAIN branchAverages # {}
    /\ averages["PreCompre"] # averages["Compre"]

(***************************************************************************)
(* C10, as stated: on an empty record list computeAverages divides by zero *)
(* and its result holds a NaN for a score component.                       *)
(***************************************************************************)
C10_EmptyListYieldsNaN ==
    (AfterAverages /\ students.len = 0) =>
        \E c \in DOMAIN averages : IsNaN(averages[c])

(***************************************************************************)
(* C10, amended: on an empty record list computeAverages returns an empty  *)
(* map: no component has an entry, so no quotient, and no NaN, is made.    *)
(***************************************************************************)
C10_EmptyListYieldsEmptyMap ==
    (AfterAverages /\ students.len = 0) =>
        /\ DOMAIN averages = {}
        /\ \A c \in DOMAIN averages : averages[c].den # 0

\* a sheet with data rows, all of them skipped
C10_Witness ==
    /\ AfterAverages
    /\ students.len = 0
    /\ Len(file.rows) >= 3
    /\ averages = EmptyMap

====
